---- MODULE Spec2Model ----
(***************************************************************************)
(* State-labels action: a key/value store kept in the label names of an    *)
(* issue.  Strings are sequences of one-character strings, so that the     *)
(* label codec (startsWith, indexOf, substring, concatenation) is computed *)
(* character by character as the TypeScript does.                          *)
(***************************************************************************)
EXTENDS Integers, Sequences, FiniteSets, TLC

\* ------------------------------------------------------------------ bounds
MaxLabels == 3      \* longest label list an issue starts with
MaxRuns == 2        \* invocations of run() in a sequence of workflow steps
MaxSeqLabels == 2   \* longest label list such a sequence starts with
MaxKeyLen == 2      \* longest key drawn for the codec
MaxValLen == 2      \* longest value drawn for the codec
MaxSepLen == 2      \* longest separator drawn for the codec
MaxRawLen == 3      \* longest raw value drawn for convertValue

\* ------------------------------------------------------- string primitives
\* String.prototype.startsWith
StartsWith(s, p) ==
  /\ Len(s) >= Len(p)
  /\ SubSeq(s, 1, Len(p)) = p

\* String.prototype.indexOf: 0-based index of the first occurrence, else -1
IndexOf(s, sub) ==
  LET hits == {i \in 0..(Len(s) - Len(sub)) : SubSeq(s, i + 1, i + Len(sub)) = sub}
  IN IF hits = {} THEN -1 ELSE CHOOSE i \in hits : \A j \in hits : i <= j

\* String.prototype.substring(from) and substring(from, to), 0-based
SubstringFrom(s, from) == SubSeq(s, from + 1, Len(s))

Substring(s, from, to) == SubSeq(s, from + 1, to)

\* all strings over an alphabet with length in lo..hi
StringsOver(alphabet, lo, hi) == UNION {[1..n -> alphabet] : n \in lo..hi}

Range(seq) == {seq[i] : i \in 1..Len(seq)}

\* ------------------------------------------------------------- label codec
\* the `null` of a failed parse
NoParse == [ok |-> FALSE, key |-> <<>>, value |-> <<>>]

\* a parse that skips one character after the key, whatever the separator's length
parseStateLabelOneChar(labelName, prefix, separator) ==
  LET expectedPrefix == prefix \o separator
  IN IF ~StartsWith(labelName, expectedPrefix) THEN NoParse
     ELSE LET remainder == SubstringFrom(labelName, Len(expectedPrefix))
              separatorIndex == IndexOf(remainder, separator)
          IN IF separatorIndex = -1 THEN NoParse
             ELSE [ok |-> TRUE,
                   key |-> Substring(remainder, 0, separatorIndex),
                   value |-> SubstringFrom(remainder, separatorIndex + 1)]

\* a parse that takes a remainder without separator for a key without value
parseStateLabelBareKey(labelName, prefix, separator) ==
  LET expectedPrefix == prefix \o separator
  IN IF ~StartsWith(labelName, expectedPrefix) THEN NoParse
     ELSE LET remainder == SubstringFrom(labelName, Len(expectedPrefix))
              separatorIndex == IndexOf(remainder, separator)
          IN IF separatorIndex = -1
             THEN [ok |-> TRUE, key |-> remainder, value |-> <<>>]
             ELSE [ok |-> TRUE,
                   key |-> Substring(remainder, 0, separatorIndex),
                   value |-> SubstringFrom(remainder, separatorIndex + Len(separator))]

\* a parse that splits at the last separator of the remainder (lastIndexOf)
parseStateLabelLastSeparator(labelName, prefix, separator) ==
  LET expectedPrefix == prefix \o separator
  IN IF ~StartsWith(labelName, expectedPrefix) THEN NoParse
     ELSE LET remainder == SubstringFrom(labelName, Len(expectedPrefix))
              found == {i \in 0..Len(remainder) :
                          StartsWith(SubstringFrom(remainder, i), separator)}
          IN IF found = {} THEN NoParse
             ELSE LET separatorIndex == CHOOSE i \in found : \A j \in found : j <= i
                  IN [ok |-> TRUE,
                      key |-> Substring(remainder, 0, separatorIndex),
                      value |-> SubstringFrom(remainder, separatorIndex + Len(separator))]

parseStateLabel(labelName, prefix, separator) ==
  LET expectedPrefix == prefix \o separator
  IN IF ~StartsWith(labelName, expectedPrefix) THEN NoParse
     ELSE LET remainder == SubstringFrom(labelName, Len(expectedPrefix))
              separatorIndex == IndexOf(remainder, separator)
          IN IF separatorIndex = -1 THEN NoParse
             ELSE [ok |-> TRUE,
                   key |-> Substring(remainder, 0, separatorIndex),
                   value |-> SubstringFrom(remainder, separatorIndex + Len(separator))]

createStateLabelName(key, value, prefix, separator) ==
  prefix \o separator \o key \o separator \o value

\* ---------------------------------------------------- number conversion
Digits == <<"0", "1", "2", "3", "4", "5", "6", "7", "8", "9">>

IsDigit(c) == \E d \in 1..10 : Digits[d] = c

DigitValue(c) == (CHOOSE d \in 1..10 : Digits[d] = c) - 1

IsWhitespace(c) == c = " "

RECURSIVE SkipWhitespace(_)
SkipWhitespace(s) ==
  IF s # <<>> /\ IsWhitespace(Head(s)) THEN SkipWhitespace(Tail(s)) ELSE s

\* the longest prefix of s made of digits
RECURSIVE DigitPrefix(_)
DigitPrefix(s) ==
  IF s # <<>> /\ IsDigit(Head(s)) THEN <<Head(s)>> \o DigitPrefix(Tail(s)) ELSE <<>>

RECURSIVE DigitsToNat(_, _)
DigitsToNat(ds, acc) ==
  IF ds = <<>> THEN acc ELSE DigitsToNat(Tail(ds), acc * 10 + DigitValue(Head(ds)))

\* parseInt(value, 10): leading whitespace, an optional sign, then digits;
\* NaN when no digit follows.  JavaScript's -0 prints as "0", like 0 here.
parseInt(value) ==
  LET s == SkipWhitespace(value)
      signed == s # <<>> /\ Head(s) \in {"-", "+"}
      body == IF signed THEN Tail(s) ELSE s
      ds == DigitPrefix(body)
  IN IF ds = <<>> THEN [nan |-> TRUE, num |-> 0]
     ELSE [nan |-> FALSE,
           num |-> IF signed /\ Head(s) = "-" THEN 0 - DigitsToNat(ds, 0)
                   ELSE DigitsToNat(ds, 0)]

RECURSIVE NatToString(_)
NatToString(n) ==
  IF n < 10 THEN <<Digits[n + 1]>> ELSE NatToString(n \div 10) \o <<Digits[(n % 10) + 1]>>

\* Number.prototype.toString for an integer
numToString(n) == IF n < 0 THEN <<"-">> \o NatToString(0 - n) ELSE NatToString(n)

\* a conversion that compares the number's text with the trimmed value
convertValueTrimmed(value) ==
  LET parsed == parseInt(value)
  IN IF ~parsed.nan /\ numToString(parsed.num) = SkipWhitespace(value)
     THEN numToString(parsed.num)
     ELSE value

\* a conversion that returns the number's text whenever parseInt finds one
convertValueLoose(value) ==
  LET parsed == parseInt(value)
  IN IF ~parsed.nan THEN numToString(parsed.num) ELSE value

convertValue(value) ==
  LET parsed == parseInt(value)
  IN IF ~parsed.nan /\ numToString(parsed.num) = value
     THEN numToString(parsed.num)
     ELSE value

\* --------------------------------------------------------- state extraction
\* extractStateLabels: the for-loop, left to right, state[parsed.key] = parsed.value.
\* The mapping is a function from the keys seen to their latest value.
\* `const state = {}`: an object literal inherits the properties of
\* Object.prototype, of which three stand for all
ObjectPrototypeKeys == {<<"__proto__">>, <<"constructor">>, <<"toString">>}

\* what reading an inherited property gives: a function or an object, which
\* is neither a string nor undefined
Inherited == <<"<inherited>">>

\* a loop that keeps the first value of a key (no overwrite)
RECURSIVE extractLoopFirstWins(_, _, _, _)
extractLoopFirstWins(labels, prefix, separator, state) ==
  IF labels = <<>> THEN state
  ELSE LET parsed == parseStateLabel(Head(labels), prefix, separator)
           next == IF parsed.ok /\ parsed.key \notin DOMAIN state
                   THEN [k \in (DOMAIN state) \cup {parsed.key} |->
                           IF k = parsed.key THEN parsed.value ELSE state[k]]
                   ELSE state
       IN extractLoopFirstWins(Tail(labels), prefix, separator, next)

RECURSIVE extractLoop(_, _, _, _)
extractLoop(labels, prefix, separator, state) ==
  IF labels = <<>> THEN state
  ELSE LET parsed == parseStateLabel(Head(labels), prefix, separator)
           \* state['__proto__'] = a string: the inherited setter ignores it
           next == IF parsed.ok /\ parsed.key # <<"__proto__">>
                   THEN [k \in (DOMAIN state) \cup {parsed.key} |->
                           IF k = parsed.key THEN parsed.value ELSE state[k]]
                   ELSE state
       IN extractLoop(Tail(labels), prefix, separator, next)

EmptyState == [k \in {} |-> <<>>]

extractStateLabels(labels, prefix, separator) ==
  extractLoop(labels, prefix, separator, EmptyState)

\* ------------------------------------------------------- operation handlers
\* JavaScript's undefined / null, kept apart from every string
Undefined == <<"<undefined>">>

JsNull == <<"<null>">>

\* currentState[key]: an own property, else an inherited one, else undefined
getProperty(state, key) ==
  IF key \in DOMAIN state THEN state[key]
  ELSE IF key \in ObjectPrototypeKeys THEN Inherited
  ELSE Undefined

\* parsed && parsed.key === key
DecodesTo(labelName, key, prefix, separator) ==
  LET parsed == parseStateLabel(labelName, prefix, separator)
  IN parsed.ok /\ parsed.key = key

\* a find that takes the first state label, whatever its key
RECURSIVE findAnyStateLabel(_, _, _, _)
findAnyStateLabel(labels, key, prefix, separator) ==
  IF labels = <<>> THEN Undefined
  ELSE IF parseStateLabel(Head(labels), prefix, separator).ok THEN Head(labels)
  ELSE findAnyStateLabel(Tail(labels), key, prefix, separator)

\* a find that takes the last label that decodes to the key (findLast)
RECURSIVE findLastLabelForKey(_, _, _, _)
findLastLabelForKey(labels, key, prefix, separator) ==
  IF labels = <<>> THEN Undefined
  ELSE IF DecodesTo(labels[Len(labels)], key, prefix, separator)
    THEN labels[Len(labels)]
  ELSE findLastLabelForKey(SubSeq(labels, 1, Len(labels) - 1), key, prefix, separator)

\* currentLabels.find(label => parsed && parsed.key === key)
RECURSIVE findLabelForKey(_, _, _, _)
findLabelForKey(labels, key, prefix, separator) ==
  IF labels = <<>> THEN Undefined
  ELSE IF DecodesTo(Head(labels), key, prefix, separator) THEN Head(labels)
  ELSE findLabelForKey(Tail(labels), key, prefix, separator)

\* a filter that drops only the first label that decodes to the key
RECURSIVE labelsToKeepFirstOnly(_, _, _, _)
labelsToKeepFirstOnly(labels, key, prefix, separator) ==
  IF labels = <<>> THEN <<>>
  ELSE IF DecodesTo(Head(labels), key, prefix, separator) THEN Tail(labels)
  ELSE <<Head(labels)>> \o labelsToKeepFirstOnly(Tail(labels), key, prefix, separator)

\* a filter that keeps only what parses: parsed && parsed.key !== key
RECURSIVE labelsToKeepParsedOnly(_, _, _, _)
labelsToKeepParsedOnly(labels, key, prefix, separator) ==
  IF labels = <<>> THEN <<>>
  ELSE (IF /\ parseStateLabel(Head(labels), prefix, separator).ok
           /\ ~DecodesTo(Head(labels), key, prefix, separator)
        THEN <<Head(labels)>> ELSE <<>>)
       \o labelsToKeepParsedOnly(Tail(labels), key, prefix, separator)

\* a filter that collects the kept labels back to front
RECURSIVE labelsToKeepReversed(_, _, _, _)
labelsToKeepReversed(labels, key, prefix, separator) ==
  IF labels = <<>> THEN <<>>
  ELSE labelsToKeepReversed(Tail(labels), key, prefix, separator)
       \o (IF ~DecodesTo(Head(labels), key, prefix, separator)
           THEN <<Head(labels)>> ELSE <<>>)

\* a filter that keeps only the labels that do not parse (label => !parsed)
RECURSIVE labelsToKeepUnparsed(_, _, _, _)
labelsToKeepUnparsed(labels, key, prefix, separator) ==
  IF labels = <<>> THEN <<>>
  ELSE (IF ~parseStateLabel(Head(labels), prefix, separator).ok
        THEN <<Head(labels)>> ELSE <<>>)
       \o labelsToKeepUnparsed(Tail(labels), key, prefix, separator)

\* currentLabels.filter(label => !parsed || parsed.key !== key)
RECURSIVE labelsToKeep(_, _, _, _)
labelsToKeep(labels, key, prefix, separator) ==
  IF labels = <<>> THEN <<>>
  ELSE (IF ~DecodesTo(Head(labels), key, prefix, separator)
        THEN <<Head(labels)>> ELSE <<>>)
       \o labelsToKeep(Tail(labels), key, prefix, separator)

\* message templates; the literal pieces are single tokens
MsgKeyNotFound(key) == <<"Key '">> \o key \o <<"' not found">>

MsgRetrieved(key) == <<"Retrieved value for key '">> \o key \o <<"'">>

MsgRetrievedAll(n) == <<"Retrieved ">> \o NatToString(n) \o <<" state values">>

MsgSet(key, convertedValue) == <<"Set state: ">> \o key \o <<"=">> \o convertedValue

MsgRemoved(key) == <<"Removed state key: ">> \o key

\* a lookup that takes the empty value for a missing key (if (!currentValue))
getOperationTruthy(key, labels, prefix, separator) ==
  LET currentState == extractStateLabels(labels, prefix, separator)
      currentValue == getProperty(currentState, key)
  IN IF currentValue = Undefined \/ currentValue = <<>>
     THEN [success |-> FALSE, message |-> MsgKeyNotFound(key), value |-> JsNull]
     ELSE [success |-> TRUE, message |-> MsgRetrieved(key), value |-> currentValue]

\* const currentValue = currentState[key]; if (currentValue === undefined)
getOperation(key, labels, prefix, separator) ==
  LET currentState == extractStateLabels(labels, prefix, separator)
      currentValue == getProperty(currentState, key)
  IN IF currentValue = Undefined
     THEN [success |-> FALSE, message |-> MsgKeyNotFound(key), value |-> JsNull]
     ELSE [success |-> TRUE, message |-> MsgRetrieved(key), value |-> currentValue]

\* a get-all that counts the state labels of the list, not the keys
getAllOperationCountsLabels(labels, prefix, separator) ==
  LET currentState == extractStateLabels(labels, prefix, separator)
      stateLabels == SelectSeq(labels,
                       LAMBDA l : parseStateLabel(l, prefix, separator).ok)
  IN [success |-> TRUE,
      message |-> MsgRetrievedAll(Len(stateLabels)),
      state |-> currentState]

getAllOperation(labels, prefix, separator) ==
  LET currentState == extractStateLabels(labels, prefix, separator)
  IN [success |-> TRUE,
      message |-> MsgRetrievedAll(Cardinality(DOMAIN currentState)),
      state |-> currentState]

\* setOperation up to its first await: the label it creates, the label it
\* found for the key, and the list it hands to setLabels
setNewLabelName(key, value, prefix, separator) ==
  createStateLabelName(key, convertValue(value), prefix, separator)

\* the new label put first instead of last
setNewLabelsFirst(key, value, labels, prefix, separator) ==
  <<setNewLabelName(key, value, prefix, separator)>>
    \o labelsToKeep(labels, key, prefix, separator)

setNewLabels(key, value, labels, prefix, separator) ==
  labelsToKeep(labels, key, prefix, separator)
    \o <<setNewLabelName(key, value, prefix, separator)>>

\* if (existingLabel): whether setOperation goes on to deleteLabel
setDeletesOld(existingLabel, newLabelName) == existingLabel # Undefined

setResult(key, value) ==
  [success |-> TRUE, message |-> MsgSet(key, convertValue(value))]

removeNotFound(key) == [success |-> FALSE, message |-> MsgKeyNotFound(key)]

removeResult(key) == [success |-> TRUE, message |-> MsgRemoved(key)]

\* ------------------------------------------------------------ run(): inputs
\* repository.split('/'): the pieces between the slashes
RECURSIVE SplitSlash(_, _)
SplitSlash(s, piece) ==
  IF s = <<>> THEN <<piece>>
  ELSE IF Head(s) = "/" THEN <<piece>> \o SplitSlash(Tail(s), <<>>)
  ELSE SplitSlash(Tail(s), piece \o <<Head(s)>>)

MsgInvalidRepository == <<"Invalid repository format. Expected: owner/repo">>

MsgInvalidOperation(operation) ==
  <<"Invalid operation: ", operation, ". Must be: set, remove, get, get-all">>

MsgKeyRequired(operation) == <<"Key is required for operation: ", operation>>

MsgValueRequired(operation) == <<"Value is required for operation: ", operation>>

MsgInvalidIssueNumber == <<"Invalid issue number">>

MsgTokenRequired == <<"GitHub token is required">>

NoError == <<>>

\* the checks of run() before the first remote call, in the order of the
\* code: the message of the first Error thrown, or NoError
validate(in) ==
  LET parts == SplitSlash(in.repository, <<>>)
      owner == parts[1]
      repo == IF Len(parts) >= 2 THEN parts[2] ELSE Undefined
  IN IF owner = <<>> \/ repo = Undefined \/ repo = <<>> THEN MsgInvalidRepository
     ELSE IF in.operation \notin {"set", "remove", "get", "get-all"}
       THEN MsgInvalidOperation(in.operation)
     ELSE IF in.operation \in {"set", "remove", "get"} /\ in.key = <<>>
       THEN MsgKeyRequired(in.operation)
     ELSE IF in.operation = "set" /\ in.value = <<>>
       THEN MsgValueRequired(in.operation)
     ELSE IF parseInt(in.issueNumber).nan THEN MsgInvalidIssueNumber
     ELSE IF in.githubToken = <<>> THEN MsgTokenRequired
     ELSE NoError

\* --------------------------------------------------------- the input space
Prefixes == {<<"s">>}

Separators == {<<":">>, <<":", ":">>}

\* keys and values the caller passes: a plain key, and a key that ends in
\* the separator's first character
Keys == {<<"a">>, <<"a", ":">>}

Values == {<<"1">>, <<"2">>}

GoodRepository == <<"o", "/", "r">>

GoodIssueNumber == <<"7">>

GoodToken == <<"t">>

Invocation(operation, key, value) ==
  [operation |-> operation, key |-> key, value |-> value,
   repository |-> GoodRepository, issueNumber |-> GoodIssueNumber,
   githubToken |-> GoodToken]

ValidInvocations ==
  {Invocation("set", k, v) : k \in Keys, v \in Values}
    \cup {Invocation(op, k, <<>>) : op \in {"remove", "get"}, k \in Keys}
    \cup {Invocation(op, <<"__proto__">>, <<>>) : op \in {"remove", "get"}}
    \cup {Invocation("get", <<"toString">>, <<>>)}
    \cup {Invocation("get-all", <<>>, <<>>)}

\* one input wrong at a time, two wrong together, and an issue number and a
\* repository with something after the part the checks look at
FaultyInvocations ==
  {Invocation("add", <<"a">>, <<"1">>)}
    \cup {Invocation(op, <<>>, <<"1">>) : op \in {"set", "remove", "get"}}
    \cup {Invocation("set", <<"a">>, <<>>)}
    \cup {[Invocation("set", <<"a">>, <<"1">>) EXCEPT !.repository = r] :
            r \in {<<"o">>, <<"/", "r">>, <<"o", "/">>}}
    \cup {[Invocation("get", <<"a">>, <<>>) EXCEPT !.issueNumber = <<"x">>]}
    \cup {[Invocation("get", <<"a">>, <<>>) EXCEPT !.githubToken = <<>>]}
    \cup {[Invocation("add", <<>>, <<>>) EXCEPT !.repository = <<"o">>]}
    \cup {[Invocation("set", <<>>, <<>>) EXCEPT !.issueNumber = <<"x">>]}
    \cup {[Invocation("get", <<"a">>, <<>>) EXCEPT !.issueNumber = <<"7", "x">>]}
    \cup {[Invocation("get", <<"a">>, <<>>) EXCEPT
             !.repository = <<"o", "/", "r", "/", "x">>]}

Invocations == ValidInvocations \cup FaultyInvocations

\* error messages of a failing remote call
ErrorMessages == {<<"API Error">>, <<"Network error">>}

\* label names an issue may carry before the action runs, for a separator:
\* two foreign labels, a malformed state label, and state labels, one of
\* them with the empty value
ForeignLabels == {<<"b">>, <<"e">>}

MalformedLabels(prefix, separator) ==
  {prefix \o separator \o <<"a">>, prefix \o separator}

StateLabelsFor(prefix, separator) ==
  {createStateLabelName(kv[1], kv[2], prefix, separator) :
     kv \in {<<(<<"a">>), (<<"1">>)>>, <<(<<"a">>), (<<"2">>)>>, <<(<<"b">>), (<<"1">>)>>,
             <<(<<"a">>), (<<>>)>>, <<(<<"__proto__">>), (<<"1">>)>>}}

LabelUniverse(prefix, separator) ==
  ForeignLabels \cup MalformedLabels(prefix, separator)
    \cup StateLabelsFor(prefix, separator)

\* label lists without a repeated name (an issue carries a label once)
IsInjective(seq) == \A i, j \in 1..Len(seq) : seq[i] = seq[j] => i = j

LabelLists(names, maxLen) ==
  {seq \in UNION {[1..n -> names] : n \in 0..maxLen} : IsInjective(seq)}

\* -------------------------------------------------------------------- state
Procs == {"A", "B"}

VARIABLES
  prefix,         \* configured prefix (input `prefix`)
  separator,      \* configured separator (input `separator`)
  issueLabels,    \* names of the labels attached to the issue, in list order
  repoLabels,     \* names of the label definitions of the repository
  invokers,       \* the workflow runs that invoke the action
  runsLeft,       \* invocations still to be started
  pc,             \* per invocation: "idle", "fetched", "cleanup", "done"
  input,          \* per invocation: the inputs read by run()
  currentLabels,  \* per invocation: the list returned by listLabelsOnIssue
  oldLabel,       \* per invocation: existingLabel / labelToRemove
  output,         \* per invocation: outputs set through core.setOutput
  failed,         \* per invocation: message given to core.setFailed, or NoError
  calls,          \* per invocation: the remote calls issued, in order
  before,         \* per invocation: lastOk as it was when run() started
  lastOk,         \* the last invocation that ended with success = true
  lastWrite,      \* the label list of the latest setLabels call that returned
  otherLabels,    \* the labels of another issue of the repository
  codec           \* a call of the label codec on its own: arguments and results

vars == <<prefix, separator, issueLabels, repoLabels, invokers, runsLeft, pc,
          input, currentLabels, oldLabel, output, failed, calls, before, lastOk,
          lastWrite, otherLabels, codec>>

config == <<prefix, separator, invokers, codec>>

\* what only the start of run() changes
started == <<runsLeft, input, before>>

CodecIdle ==
  [pc |-> "idle", prefix |-> <<>>, separator |-> <<>>, key |-> <<>>,
   value |-> <<>>, label |-> <<>>, parsed |-> NoParse, converted |-> <<>>,
   message |-> <<>>]

NoOutput == [n \in {} |-> FALSE]

\* core.setOutput(name, value)
setOutput(out, name, value) ==
  [n \in (DOMAIN out) \cup {name} |-> IF n = name THEN value ELSE out[n]]

\* an invocation that has ended: its inputs, the list it fetched and the
\* issue's labels when it ended
NoInvocation ==
  [operation |-> "none", key |-> <<>>, value |-> <<>>, fetched |-> <<>>,
   labelsAfter |-> <<>>]

\* the issue before the action runs: its labels are defined in the
\* repository, and no other issue carries a label
InitIssue(lists) ==
  /\ issueLabels \in lists
  /\ otherLabels = <<>>
  /\ repoLabels = Range(issueLabels)

\* no setLabels call has returned yet
NoWrite == [written |-> FALSE, labels |-> <<>>]

InitRun(runs, who) ==
  /\ prefix \in Prefixes
  /\ separator \in Separators
  /\ invokers = who
  /\ runsLeft = runs
  /\ pc = [p \in Procs |-> "idle"]
  /\ input = [p \in Procs |-> Invocation("none", <<>>, <<>>)]
  /\ currentLabels = [p \in Procs |-> <<>>]
  /\ oldLabel = [p \in Procs |-> Undefined]
  /\ output = [p \in Procs |-> NoOutput]
  /\ failed = [p \in Procs |-> NoError]
  /\ calls = [p \in Procs |-> <<>>]
  /\ before = [p \in Procs |-> NoInvocation]
  /\ lastOk = NoInvocation
  /\ lastWrite = NoWrite

AnyLabelList(pre, sep) == LabelLists(LabelUniverse(pre, sep), MaxLabels)

\* one invocation of the action on an issue with any label list
Init ==
  /\ InitRun(1, {"A"})
  /\ InitIssue(AnyLabelList(prefix, separator))
  /\ codec = CodecIdle

\* ------------------------------------------------------ the remote gateway
\* the issue keeps one label per name
RECURSIVE Dedup(_)
Dedup(seq) ==
  IF seq = <<>> THEN <<>>
  ELSE LET front == Dedup(SubSeq(seq, 1, Len(seq) - 1))
           last == seq[Len(seq)]
       IN IF last \in Range(front) THEN front ELSE front \o <<last>>

RECURSIVE Without(_, _)
Without(seq, name) ==
  IF seq = <<>> THEN <<>>
  ELSE (IF Head(seq) = name THEN <<>> ELSE <<Head(seq)>>) \o Without(Tail(seq), name)

\* issues.setLabels succeeded: the issue carries exactly these labels, and
\* a name the repository did not define is defined
SetLabelsDone(labels) ==
  /\ issueLabels' = Dedup(labels)
  /\ repoLabels' = repoLabels \cup Range(labels)
  /\ lastWrite' = [written |-> TRUE, labels |-> labels]
  /\ UNCHANGED otherLabels

\* issues.deleteLabel succeeded: the definition is gone from the
\* repository, and with it from every issue that carried it (deleting a
\* label of a repository removes it from the issues it is attached to)
DeleteLabelDone(name) ==
  /\ name \in repoLabels
  /\ repoLabels' = repoLabels \ {name}
  /\ issueLabels' = Without(issueLabels, name)
  /\ otherLabels' = Without(otherLabels, name)
  /\ UNCHANGED lastWrite

\* a remote call as the invocation issued it, and whether it returned (ok)
\* or threw
ListCall(ok) ==
  [call |-> "listLabelsOnIssue", labels |-> <<>>, name |-> <<>>, ok |-> ok]

SetLabelsCall(labels, ok) ==
  [call |-> "setLabels", labels |-> labels, name |-> <<>>, ok |-> ok]

DeleteLabelCall(name, ok) ==
  [call |-> "deleteLabel", labels |-> <<>>, name |-> name, ok |-> ok]

\* ------------------------------------------------------------ run(): steps
\* run() starts: the inputs are read, nothing is output yet
CanBegin(p) ==
  /\ p \in invokers
  /\ pc[p] \in {"idle", "done"}
  /\ runsLeft > 0

Begin(p, in) ==
  /\ runsLeft' = runsLeft - 1
  /\ input' = [input EXCEPT ![p] = in]
  /\ before' = [before EXCEPT ![p] = lastOk]
  /\ oldLabel' = [oldLabel EXCEPT ![p] = Undefined]

\* a catch block that raises the failure and sets no output
ThrowSilently(p, out, msg) ==
  /\ failed' = [failed EXCEPT ![p] = msg]
  /\ output' = [output EXCEPT ![p] = out]
  /\ pc' = [pc EXCEPT ![p] = "done"]

\* a catch block that takes its else branch on every error
ThrowUnknown(p, out, msg) ==
  /\ failed' = [failed EXCEPT ![p] = <<"An unknown error occurred">>]
  /\ output' = [output EXCEPT ![p] =
                  setOutput(setOutput(out, "success", FALSE), "message",
                            <<"An unknown error occurred">>)]
  /\ pc' = [pc EXCEPT ![p] = "done"]

\* the catch block of run(): setFailed, success = false, message
Throw(p, out, msg) ==
  /\ failed' = [failed EXCEPT ![p] = msg]
  /\ output' = [output EXCEPT ![p] =
                  setOutput(setOutput(out, "success", FALSE), "message", msg)]
  /\ pc' = [pc EXCEPT ![p] = "done"]

\* the end of the try block of run(): success and message are output
Return(p, out, result) ==
  /\ output' = [output EXCEPT ![p] =
                  setOutput(setOutput(out, "success", result.success),
                            "message", result.message)]
  /\ pc' = [pc EXCEPT ![p] = "done"]
  /\ lastOk' = IF result.success
               THEN [operation |-> input[p].operation, key |-> input[p].key,
                     value |-> input[p].value, fetched |-> currentLabels[p],
                     labelsAfter |-> issueLabels']
               ELSE lastOk

\* a validation check throws before any remote call
RunInvalid(p) ==
  /\ CanBegin(p)
  /\ \E in \in Invocations :
       /\ validate(in) # NoError
       /\ Begin(p, in)
       /\ Throw(p, NoOutput, validate(in))
       /\ calls' = [calls EXCEPT ![p] = <<>>]
       /\ currentLabels' = [currentLabels EXCEPT ![p] = <<>>]
       /\ UNCHANGED <<config, issueLabels, repoLabels, lastWrite, otherLabels, lastOk>>

\* listLabelsOnIssue returns the issue's labels
RunList(p) ==
  /\ CanBegin(p)
  /\ \E in \in Invocations :
       /\ validate(in) = NoError
       /\ Begin(p, in)
       /\ calls' = [calls EXCEPT ![p] = <<ListCall(TRUE)>>]
       /\ currentLabels' = [currentLabels EXCEPT ![p] = issueLabels]
       /\ pc' = [pc EXCEPT ![p] = "fetched"]
       /\ output' = [output EXCEPT ![p] = NoOutput]
       /\ failed' = [failed EXCEPT ![p] = NoError]
       /\ UNCHANGED <<config, issueLabels, repoLabels, lastWrite, otherLabels, lastOk>>

\* listLabelsOnIssue throws
RunListFails(p) ==
  /\ CanBegin(p)
  /\ \E in \in Invocations, err \in ErrorMessages :
       /\ validate(in) = NoError
       /\ Begin(p, in)
       /\ Throw(p, NoOutput, err)
       /\ calls' = [calls EXCEPT ![p] = <<ListCall(FALSE)>>]
       /\ currentLabels' = [currentLabels EXCEPT ![p] = <<>>]
       /\ UNCHANGED <<config, issueLabels, repoLabels, lastWrite, otherLabels, lastOk>>

AtOperation(p, operation) == pc[p] = "fetched" /\ input[p].operation = operation

\* a get that takes the value off the issue: it replaces the label list by
\* the labels of the other keys
GetConsuming(p) ==
  /\ AtOperation(p, "get")
  /\ LET kept == labelsToKeep(currentLabels[p], input[p].key, prefix, separator)
         result == getOperation(input[p].key, currentLabels[p], prefix, separator)
     IN /\ calls' = [calls EXCEPT ![p] = Append(@, SetLabelsCall(kept, TRUE))]
        /\ SetLabelsDone(kept)
        /\ Return(p, setOutput(output[p], "value", result.value), result)
  /\ UNCHANGED <<config, started, currentLabels, oldLabel, failed>>

\* case 'get'
Get(p) ==
  /\ AtOperation(p, "get")
  /\ UNCHANGED <<config, started, issueLabels, repoLabels, lastWrite, otherLabels,
                 currentLabels,
                 oldLabel, failed, calls>>
  /\ LET result == getOperation(input[p].key, currentLabels[p], prefix, separator)
     IN Return(p, setOutput(output[p], "value", result.value), result)

\* case 'get-all'
GetAll(p) ==
  /\ AtOperation(p, "get-all")
  /\ UNCHANGED <<config, started, issueLabels, repoLabels, lastWrite, otherLabels,
                 currentLabels,
                 oldLabel, failed, calls>>
  /\ LET result == getAllOperation(currentLabels[p], prefix, separator)
     IN Return(p, setOutput(output[p], "state", result.state), result)

\* case 'set', setLabels returns: without an existing label setOperation
\* returns at once, with one it goes on to deleteLabel
SetCommit(p) ==
  /\ AtOperation(p, "set")
  /\ LET key == input[p].key
         value == input[p].value
         newLabelName == setNewLabelName(key, value, prefix, separator)
         existingLabel == findLabelForKey(currentLabels[p], key, prefix, separator)
         newLabels == setNewLabels(key, value, currentLabels[p], prefix, separator)
     IN /\ calls' = [calls EXCEPT ![p] = Append(@, SetLabelsCall(newLabels, TRUE))]
        /\ SetLabelsDone(newLabels)
        /\ oldLabel' = [oldLabel EXCEPT ![p] = existingLabel]
        /\ IF setDeletesOld(existingLabel, newLabelName)
           THEN /\ pc' = [pc EXCEPT ![p] = "cleanup"]
                /\ UNCHANGED <<output, lastOk>>
           ELSE Return(p, output[p], setResult(key, value))
  /\ UNCHANGED <<config, started, currentLabels, failed>>

\* a handler that swallows the error of setLabels and goes on to deleteLabel
CommitFailsGoesOn(p) ==
  /\ \/ AtOperation(p, "set")
     \/ AtOperation(p, "remove")
  /\ findLabelForKey(currentLabels[p], input[p].key, prefix, separator) # Undefined
  /\ calls' = [calls EXCEPT ![p] = Append(@,
       SetLabelsCall(IF input[p].operation = "set"
                     THEN setNewLabels(input[p].key, input[p].value,
                                       currentLabels[p], prefix, separator)
                     ELSE labelsToKeep(currentLabels[p], input[p].key,
                                       prefix, separator),
                     FALSE))]
  /\ oldLabel' = [oldLabel EXCEPT ![p] =
       findLabelForKey(currentLabels[p], input[p].key, prefix, separator)]
  /\ pc' = [pc EXCEPT ![p] = "cleanup"]
  /\ UNCHANGED <<config, started, issueLabels, repoLabels, lastWrite, otherLabels,
                 currentLabels, output, failed, lastOk>>

\* case 'set' or 'remove', setLabels throws: the error reaches run()'s catch
CommitFails(p) ==
  /\ \/ AtOperation(p, "set")
     \/ /\ AtOperation(p, "remove")
        /\ findLabelForKey(currentLabels[p], input[p].key, prefix, separator) # Undefined
  /\ \E err \in ErrorMessages :
       /\ calls' = [calls EXCEPT ![p] = Append(@,
            SetLabelsCall(IF input[p].operation = "set"
                          THEN setNewLabels(input[p].key, input[p].value,
                                            currentLabels[p], prefix, separator)
                          ELSE labelsToKeep(currentLabels[p], input[p].key,
                                            prefix, separator),
                          FALSE))]
       /\ Throw(p, output[p], err)
  /\ UNCHANGED <<config, started, issueLabels, repoLabels, lastWrite, otherLabels,
                 currentLabels,
                 oldLabel, lastOk>>

\* the result setOperation / removeOperation returns after the cleanup
CleanupResult(p) ==
  IF input[p].operation = "set" THEN setResult(input[p].key, input[p].value)
  ELSE removeResult(input[p].key)

\* deleteLabel returns: the old definition is deleted
Cleanup(p) ==
  /\ pc[p] = "cleanup"
  /\ calls' = [calls EXCEPT ![p] = Append(@, DeleteLabelCall(oldLabel[p], TRUE))]
  /\ DeleteLabelDone(oldLabel[p])
  /\ Return(p, output[p], CleanupResult(p))
  /\ UNCHANGED <<config, started, currentLabels, oldLabel, failed>>

\* deleteLabel throws and nothing catches it before run()'s catch block
CleanupFailsThrows(p) ==
  /\ pc[p] = "cleanup"
  /\ calls' = [calls EXCEPT ![p] = Append(@, DeleteLabelCall(oldLabel[p], FALSE))]
  /\ \E err \in ErrorMessages : Throw(p, output[p], err)
  /\ UNCHANGED <<config, started, issueLabels, repoLabels, lastWrite, otherLabels,
                 currentLabels,
                 oldLabel, lastOk>>

\* deleteLabel throws: a warning is logged and the result is the same
CleanupFails(p) ==
  /\ pc[p] = "cleanup"
  /\ calls' = [calls EXCEPT ![p] = Append(@, DeleteLabelCall(oldLabel[p], FALSE))]
  /\ UNCHANGED <<issueLabels, repoLabels, lastWrite, otherLabels>>
  /\ Return(p, output[p], CleanupResult(p))
  /\ UNCHANGED <<config, started, currentLabels, oldLabel, failed>>

\* a remove that throws on a missing key instead of returning the result
RemoveNotFoundThrows(p) ==
  /\ AtOperation(p, "remove")
  /\ findLabelForKey(currentLabels[p], input[p].key, prefix, separator) = Undefined
  /\ Throw(p, output[p], MsgKeyNotFound(input[p].key))
  /\ UNCHANGED <<config, started, issueLabels, repoLabels, lastWrite, otherLabels,
                 currentLabels,
                 oldLabel, calls, lastOk>>

\* case 'remove', no label decodes to the key: no remote call
RemoveNotFound(p) ==
  /\ AtOperation(p, "remove")
  /\ findLabelForKey(currentLabels[p], input[p].key, prefix, separator) = Undefined
  /\ UNCHANGED <<issueLabels, repoLabels, lastWrite, otherLabels>>
  /\ Return(p, output[p], removeNotFound(input[p].key))
  /\ UNCHANGED <<config, started, currentLabels, oldLabel, failed, calls>>

\* case 'remove', setLabels returns; removeOperation goes on to deleteLabel
RemoveCommit(p) ==
  /\ AtOperation(p, "remove")
  /\ LET key == input[p].key
         labelToRemove == findLabelForKey(currentLabels[p], key, prefix, separator)
         kept == labelsToKeep(currentLabels[p], key, prefix, separator)
     IN /\ labelToRemove # Undefined
        /\ calls' = [calls EXCEPT ![p] = Append(@, SetLabelsCall(kept, TRUE))]
        /\ SetLabelsDone(kept)
        /\ oldLabel' = [oldLabel EXCEPT ![p] = labelToRemove]
        /\ pc' = [pc EXCEPT ![p] = "cleanup"]
  /\ UNCHANGED <<config, started, currentLabels, output, failed, lastOk>>

Next ==
  \E p \in Procs :
    \/ RunInvalid(p)
    \/ RunList(p)
    \/ RunListFails(p)
    \/ Get(p)
    \/ GetAll(p)
    \/ SetCommit(p)
    \/ RemoveNotFound(p)
    \/ RemoveCommit(p)
    \/ CommitFails(p)
    \/ Cleanup(p)
    \/ CleanupFails(p)

Spec == Init /\ [][Next]_vars

\* A sequence of workflow steps, each one invocation of the action, on an
\* issue that starts with a short label list.
SeqUniverse(pre, sep) ==
  {<<"b">>, createStateLabelName(<<"__proto__">>, <<"1">>, pre, sep)}
    \cup {createStateLabelName(<<"a">>, v, pre, sep) : v \in Values}

SeqLabelList(pre, sep) == LabelLists(SeqUniverse(pre, sep), MaxSeqLabels)

InitSeq ==
  /\ InitRun(MaxRuns, {"A"})
  /\ InitIssue(SeqLabelList(prefix, separator))
  /\ codec = CodecIdle

SpecSeq == InitSeq /\ [][Next]_vars

\* at most one label of the list decodes to each key
OneLabelPerKey(labels, pre, sep) ==
  \A i, j \in 1..Len(labels) :
    LET pi == parseStateLabel(labels[i], pre, sep)
        pj == parseStateLabel(labels[j], pre, sep)
    IN (pi.ok /\ pj.ok /\ pi.key = pj.key) => i = j

\* successive invocations on an issue that starts with at most one label
\* per key, as the action itself leaves it
InitUnique ==
  /\ InitSeq
  /\ OneLabelPerKey(issueLabels, prefix, separator)

SpecUnique == InitUnique /\ [][Next]_vars

\* one invocation on an issue of a repository in which another issue
\* carries labels too, state labels of the same prefix among them
InitRepo ==
  /\ InitRun(1, {"A"})
  /\ issueLabels \in SeqLabelList(prefix, separator)
  /\ otherLabels \in SeqLabelList(prefix, separator)
  /\ repoLabels = Range(issueLabels) \cup Range(otherLabels)
  /\ codec = CodecIdle

SpecRepo == InitRepo /\ [][Next]_vars

\* two workflow runs invoke the action on one issue at the same time: their
\* remote calls interleave in every order
InitConc ==
  /\ InitRun(Cardinality(Procs), Procs)
  /\ InitIssue(SeqLabelList(prefix, separator))
  /\ codec = CodecIdle

SpecConc == InitConc /\ [][Next]_vars

\* ------------------------------------------------- the label codec alone
\* createStateLabelName and parseStateLabel applied to drawn arguments:
\* any prefix, a separator of one or more characters, keys and values that
\* may hold the separator's character.
CodecPrefixes == StringsOver({"s", ":"}, 1, 1)

CodecSeparators == StringsOver({":"}, 1, MaxSepLen)

CodecKeys == StringsOver({"a", ":"}, 0, MaxKeyLen)

CodecValues == StringsOver({"1", ":"}, 0, MaxValLen)

InitCodec ==
  /\ InitRun(0, {})
  /\ InitIssue({<<>>})
  /\ codec \in {[CodecIdle EXCEPT !.pc = "start", !.prefix = pre, !.separator = sep,
                                  !.key = k, !.value = v] :
                  pre \in CodecPrefixes, sep \in CodecSeparators,
                  k \in CodecKeys, v \in CodecValues}

machine == <<prefix, separator, issueLabels, repoLabels, invokers, runsLeft, pc,
             input, currentLabels, oldLabel, output, failed, calls, before,
             lastOk, lastWrite, otherLabels>>

Encode ==
  /\ codec.pc = "start"
  /\ codec' = [codec EXCEPT
       !.pc = "encoded",
       !.label = createStateLabelName(codec.key, codec.value, codec.prefix,
                                      codec.separator)]
  /\ UNCHANGED machine

Decode ==
  /\ codec.pc = "encoded"
  /\ codec' = [codec EXCEPT
       !.pc = "decoded",
       !.parsed = parseStateLabel(codec.label, codec.prefix, codec.separator)]
  /\ UNCHANGED machine

NextCodec == Encode \/ Decode

SpecCodec == InitCodec /\ [][NextCodec]_vars

\* convertValue applied to drawn raw values: digits with and without a
\* leading zero, a sign, letters and a blank
RawValues == StringsOver({"0", "4", "2", "7", "5", "-", "a", "b", "c", " "}, 0, MaxRawLen)

InitConvert ==
  /\ InitRun(0, {})
  /\ InitIssue({<<>>})
  /\ codec \in {[CodecIdle EXCEPT !.pc = "raw", !.key = k, !.value = raw] :
                  k \in Keys, raw \in RawValues}

Convert ==
  /\ codec.pc = "raw"
  /\ codec' = [codec EXCEPT !.pc = "converted", !.converted = convertValue(codec.value)]
  /\ UNCHANGED machine

\* setOperation on a non-empty raw value: the label it creates and the
\* message it returns
SetName ==
  /\ codec.pc = "converted"
  /\ codec.value # <<>>
  /\ codec' = [codec EXCEPT
       !.pc = "named",
       !.label = setNewLabelName(codec.key, codec.value, prefix, separator),
       !.message = setResult(codec.key, codec.value).message]
  /\ UNCHANGED machine

NextConvert == Convert \/ SetName

SpecConvert == InitConvert /\ [][NextConvert]_vars

\* ===================================================================== claims
Contains(s, sub) == IndexOf(s, sub) # -1

CodecRoundTrips ==
  codec.parsed = [ok |-> TRUE, key |-> codec.key, value |-> codec.value]

\* C1 as stated: for every prefix, separator, key that does not contain the
\* separator, and value, decoding the encoded label gives back the key and
\* the value.
C1_RoundTripAsStated ==
  (codec.pc = "decoded" /\ ~Contains(codec.key, codec.separator)) => CodecRoundTrips

\* the separator minus its last character
SeparatorHead(sep) == SubSeq(sep, 1, Len(sep) - 1)

\* C1 amended: decoding the encoded label gives back the key and the value
\* for every key such that the separator does not occur in the key followed
\* by the separator minus its last character (for a separator of one
\* character: the key does not contain the separator).
C1_RoundTrip ==
  (/\ codec.pc = "decoded"
   /\ ~Contains(codec.key \o SeparatorHead(codec.separator), codec.separator))
    => CodecRoundTrips

C1_Witness ==
  /\ codec.pc = "decoded"
  /\ Len(codec.separator) = 2
  /\ codec.key = <<"a", "a">>
  /\ Contains(codec.value, codec.separator)
  /\ CodecRoundTrips

\* ------------------------------------------------ vocabulary of the claims
\* the invocation's list call returned, so its operation handler ran
Listed(p) ==
  /\ calls[p] # <<>>
  /\ calls[p][1] = ListCall(TRUE)

\* the replace-all and delete-definition calls of the invocation
WriteCalls(p) == SelectSeq(calls[p], LAMBDA c : c.call # "listLabelsOnIssue")

SetLabelsCalls(p) == SelectSeq(calls[p], LAMBDA c : c.call = "setLabels")

DeleteCalls(p) == SelectSeq(calls[p], LAMBDA c : c.call = "deleteLabel")

Finished(p, operation) == pc[p] = "done" /\ input[p].operation = operation /\ Listed(p)

\* positions of the fetched list whose label decodes to the requested key
KeyPositions(p) ==
  {i \in 1..Len(currentLabels[p]) :
     LET parsed == parseStateLabel(currentLabels[p][i], prefix, separator)
     IN parsed.ok /\ parsed.key = input[p].key}

IsForeign(name) == ~StartsWith(name, prefix \o separator)

Front(seq) == SubSeq(seq, 1, Len(seq) - 1)

Last(seq) == seq[Len(seq)]

\* sub lists exactly the elements of seq at the positions in keep, in order
IsSelection(sub, seq, keep) ==
  \E f \in [1..Len(sub) -> 1..Len(seq)] :
    /\ \A i \in 1..Len(sub) : sub[i] = seq[f[i]]
    /\ \A i, j \in 1..Len(sub) : i < j => f[i] < f[j]
    /\ {f[i] : i \in 1..Len(sub)} = keep

\* the label written for (key, value) decodes back to (key, value): C1
RoundTrips(key, value) ==
  parseStateLabel(createStateLabelName(key, value, prefix, separator),
                  prefix, separator)
    = [ok |-> TRUE, key |-> key, value |-> value]

\* C2: after a Set(k, v) that ended with success = true, a Get(k) that next
\* lists the issue's labels returns success = true and value
\* normalizeValue(v), whatever k had before the Set: absent, another value,
\* or the same value v.  Stated for the keys whose label decodes back to
\* the key, which leaves out what C1 already settles.
C2_SetThenGet ==
  \A p \in Procs :
    (/\ Finished(p, "get")
     /\ before[p].operation = "set"
     /\ before[p].key = input[p].key
     /\ RoundTrips(before[p].key, convertValue(before[p].value)))
      => /\ output[p].success = TRUE
         /\ output[p].value = convertValue(before[p].value)

\* C3: Set issues a delete-definition call only for an existing label that
\* decodes to the key and whose name differs from the new label name; Set
\* with the value the key already has makes no delete-definition call.
C3_DeleteOnlyStaleLabel ==
  \A p \in Procs :
    input[p].operation = "set" =>
      \A i \in 1..Len(DeleteCalls(p)) :
        LET name == DeleteCalls(p)[i].name
        IN /\ \E j \in KeyPositions(p) : currentLabels[p][j] = name
           /\ name # createStateLabelName(input[p].key, convertValue(input[p].value),
                                          prefix, separator)

\* C4: Set(k, v) applied again to the labels that a Set(k, v) left gives the
\* issue the same set of label names as after the first Set.
C4_SetReplay ==
  \A p \in Procs :
    (/\ Finished(p, "set")
     /\ output[p].success = TRUE
     /\ before[p].operation = "set"
     /\ before[p].key = input[p].key
     /\ before[p].value = input[p].value)
      => Range(issueLabels) = Range(before[p].labelsAfter)

\* the list a Set or Remove invocation passed to the replace-all call
Replaced(p) == SetLabelsCalls(p)[1].labels

CalledReplace(p, operation) ==
  /\ input[p].operation = operation
  /\ SetLabelsCalls(p) # <<>>

\* positions of the fetched list whose label is not among the labels that
\* the replace-all list keeps (the list minus its appended last element)
RemovedBySet(p) ==
  {i \in 1..Len(currentLabels[p]) : currentLabels[p][i] \notin Range(Front(Replaced(p)))}

NewLabelOf(p) ==
  createStateLabelName(input[p].key, convertValue(input[p].value), prefix, separator)

\* C5 as stated: Set on a key no current label decodes to appends exactly
\* one label and removes none; Set on a key some current label decodes to
\* removes exactly one existing label and appends exactly one.
C5_SetCountsAsStated ==
  \A p \in Procs :
    CalledReplace(p, "set") =>
      /\ Last(Replaced(p)) = NewLabelOf(p)
      /\ Len(Replaced(p)) = Len(currentLabels[p]) - Cardinality(RemovedBySet(p)) + 1
      /\ Cardinality(RemovedBySet(p)) = (IF KeyPositions(p) = {} THEN 0 ELSE 1)

\* C5 amended: Set on a key no current label decodes to appends exactly one
\* label and removes none; Set on a key some current labels decode to
\* removes every label that decodes to the key (exactly one when exactly one
\* does) and appends exactly one.
C5_SetCounts ==
  \A p \in Procs :
    CalledReplace(p, "set") =>
      /\ Last(Replaced(p)) = NewLabelOf(p)
      /\ Len(Replaced(p)) = Len(currentLabels[p]) - Cardinality(RemovedBySet(p)) + 1
      /\ RemovedBySet(p) = KeyPositions(p)

C5_Witness ==
  \E p \in Procs :
    /\ CalledReplace(p, "set")
    /\ Cardinality(KeyPositions(p)) = 2
    /\ Len(currentLabels[p]) = 3
    /\ Len(Replaced(p)) = 2

C5_WitnessAbsent ==
  \E p \in Procs :
    /\ CalledReplace(p, "set")
    /\ KeyPositions(p) = {}
    /\ Len(currentLabels[p]) = 2

\* C6: the list Set passes to replace-all is the names of the current labels
\* whose decode is none or whose decoded key differs from the requested key,
\* in their original order, followed by
\* encode(key, normalizeValue(value), prefix, separator).
C6_SetReplaceList ==
  \A p \in Procs :
    CalledReplace(p, "set") =>
      /\ Replaced(p) # <<>>
      /\ Last(Replaced(p)) = NewLabelOf(p)
      /\ IsSelection(Front(Replaced(p)), currentLabels[p],
                     (1..Len(currentLabels[p])) \ KeyPositions(p))

C6_Witness ==
  \E p \in Procs :
    /\ CalledReplace(p, "set")
    /\ Len(currentLabels[p]) = 3
    /\ KeyPositions(p) = {2}
    /\ Len(Replaced(p)) = 3
    /\ IsForeign(currentLabels[p][1])
    /\ ~IsForeign(currentLabels[p][3])

ForeignPositions(p) ==
  {i \in 1..Len(currentLabels[p]) : IsForeign(currentLabels[p][i])}

\* the foreign names of a list, in list order
ForeignOf(seq) == SelectSeq(seq, IsForeign)

\* C7: in every Set and Remove each current label that does not start with
\* prefix+separator is in the replace-all list, in the same relative order,
\* and no delete-definition call names a foreign label.
C7_ForeignUntouched ==
  \A p \in Procs :
    /\ (CalledReplace(p, "set") \/ CalledReplace(p, "remove"))
         => ForeignOf(Replaced(p)) = ForeignOf(currentLabels[p])
    /\ \A i \in 1..Len(DeleteCalls(p)) : ~IsForeign(DeleteCalls(p)[i].name)

C7_Witness ==
  \E p \in Procs :
    /\ pc[p] = "done"
    /\ CalledReplace(p, "remove")
    /\ DeleteCalls(p) # <<>>
    /\ Cardinality(ForeignPositions(p)) = 2
    /\ Len(currentLabels[p]) = 3

\* C8: Remove on a key no current label decodes to makes no replace-all and
\* no delete-definition call and returns success = false with the message
\* "Key '<key>' not found".
C8_RemoveAbsent ==
  \A p \in Procs :
    (Finished(p, "remove") /\ KeyPositions(p) = {})
      => /\ WriteCalls(p) = <<>>
         /\ failed[p] = NoError
         /\ output[p].success = FALSE
         /\ output[p].message = <<"Key '">> \o input[p].key \o <<"' not found">>

C8_Witness ==
  \E p \in Procs :
    /\ Finished(p, "remove")
    /\ KeyPositions(p) = {}
    /\ \E i \in 1..Len(currentLabels[p]) :
         parseStateLabel(currentLabels[p][i], prefix, separator).ok

\* C9: Remove on a key some current label decodes to calls replace-all with
\* the names of the current labels that do not decode to the key, in their
\* original order, and (the call having returned) returns success = true
\* with the message "Removed state key: <key>".
C9_RemovePresent ==
  \A p \in Procs :
    (Finished(p, "remove") /\ KeyPositions(p) # {})
      => /\ Len(SetLabelsCalls(p)) = 1
         /\ IsSelection(Replaced(p), currentLabels[p],
                        (1..Len(currentLabels[p])) \ KeyPositions(p))
         /\ SetLabelsCalls(p)[1].ok
              => /\ failed[p] = NoError
                 /\ output[p].success = TRUE
                 /\ output[p].message = <<"Removed state key: ">> \o input[p].key

C9_Witness ==
  \E p \in Procs :
    /\ Finished(p, "remove")
    /\ KeyPositions(p) = {2}
    /\ Len(currentLabels[p]) = 3
    /\ output[p].success = TRUE

\* C10: after a Remove(k) that ended with success = true, a Get(k) that next
\* lists the issue's labels returns success = false with value null, and a
\* second Remove(k) returns the soft miss, also when several labels decoded
\* to k before the Remove.
C10_RemoveThenGet ==
  \A p \in Procs :
    (before[p].operation = "remove" /\ before[p].key = input[p].key)
      => /\ Finished(p, "get")
              => /\ output[p].success = FALSE
                 /\ output[p].value = JsNull
                 /\ failed[p] = NoError
         /\ Finished(p, "remove")
              => /\ output[p].success = FALSE
                 /\ output[p].message = <<"Key '">> \o input[p].key \o <<"' not found">>
                 /\ WriteCalls(p) = <<>>
                 /\ failed[p] = NoError

\* a Get after a Remove that found two labels for the key
C10_Witness ==
  \E p \in Procs :
    /\ Finished(p, "get")
    /\ before[p].operation = "remove"
    /\ before[p].key = input[p].key
    /\ Cardinality({i \in 1..Len(before[p].fetched) :
          DecodesTo(before[p].fetched[i], input[p].key, prefix, separator)}) = 2

C10_WitnessRemove ==
  \E p \in Procs :
    /\ Finished(p, "remove")
    /\ before[p].operation = "remove"
    /\ before[p].key = input[p].key

\* ---------------------------------------------------------------- claim C11
\* the mapping extractState builds from the list the invocation fetched
FetchedState(p) == extractStateLabels(currentLabels[p], prefix, separator)

\* C11: a finished Get whose key is in the mapping built from the fetched
\* list outputs success = true, the message "Retrieved value for key '<key>'"
\* and the mapped value (the empty string included); a Get whose key is not
\* in the mapping outputs success = false, "Key '<key>' not found" and null.
C11_GetResult ==
  \A p \in Procs :
    Finished(p, "get") =>
      LET key == input[p].key
      IN IF key \in DOMAIN FetchedState(p)
         THEN /\ output[p].success = TRUE
              /\ output[p].message = <<"Retrieved value for key '">> \o key \o <<"'">>
              /\ output[p].value = FetchedState(p)[key]
         ELSE /\ output[p].success = FALSE
              /\ output[p].message = <<"Key '">> \o key \o <<"' not found">>
              /\ output[p].value = JsNull

\* a Get found its key with the empty value
C11_Witness ==
  \E p \in Procs :
    /\ Finished(p, "get")
    /\ input[p].key \in DOMAIN FetchedState(p)
    /\ FetchedState(p)[input[p].key] = <<>>
    /\ output[p].success = TRUE

\* a Get missed its key in a list that carries other state labels
C11_WitnessMiss ==
  \E p \in Procs :
    /\ Finished(p, "get")
    /\ input[p].key \notin DOMAIN FetchedState(p)
    /\ DOMAIN FetchedState(p) # {}
    /\ output[p].value = JsNull

\* ---------------------------------------------------------------- claim C12
\* the step belongs to the invocation of p: its position or its calls change
StepOf(p) == pc'[p] # pc[p] \/ calls'[p] # calls[p] \/ output'[p] # output[p]

\* C12: every step of a get or get-all invocation leaves the labels of the
\* issue and the label definitions of the repository as they were, and the
\* invocation has issued no setLabels and no deleteLabel call.
C12_ReadsDoNotWrite ==
  [][\A p \in Procs :
       (StepOf(p) /\ input'[p].operation \in {"get", "get-all"}) =>
         /\ issueLabels' = issueLabels
         /\ repoLabels' = repoLabels
         /\ \A i \in 1..Len(calls'[p]) : calls'[p][i].call = "listLabelsOnIssue"]_vars

\* a get found its key on an issue that carries labels
C12_Witness ==
  \E p \in Procs :
    /\ Finished(p, "get")
    /\ KeyPositions(p) # {}
    /\ output[p].success = TRUE
    /\ issueLabels = currentLabels[p]
    /\ WriteCalls(p) = <<>>

\* ---------------------------------------------------------------- claim C13
\* the keys some label of the fetched list decodes to
FetchedKeys(p) ==
  {parseStateLabel(currentLabels[p][i], prefix, separator).key :
     i \in {j \in 1..Len(currentLabels[p]) :
              parseStateLabel(currentLabels[p][j], prefix, separator).ok}}

\* C13: a finished get-all outputs success = true, the whole mapping built
\* from the fetched list as its state, and the message "Retrieved <N> state
\* values" with N the number of distinct keys of that mapping, all of them
\* keys some fetched label decodes to; on a list without a state label the
\* mapping is empty and N is 0.
C13_GetAllResult ==
  \A p \in Procs :
    Finished(p, "get-all") =>
      /\ output[p].success = TRUE
      /\ failed[p] = NoError
      /\ output[p].state = FetchedState(p)
      /\ DOMAIN output[p].state \subseteq FetchedKeys(p)
      /\ output[p].message =
           <<"Retrieved ">> \o NatToString(Cardinality(DOMAIN output[p].state))
             \o <<" state values">>
      /\ FetchedKeys(p) = {} =>
           /\ output[p].state = EmptyState
           /\ output[p].message = <<"Retrieved ", "0", " state values">>

\* a get-all on a list that carries two labels of one key and a foreign one
C13_Witness ==
  \E p \in Procs :
    /\ Finished(p, "get-all")
    /\ Cardinality(FetchedKeys(p)) = 1
    /\ Len(currentLabels[p]) = 3
    /\ \E i \in 1..3 : IsForeign(currentLabels[p][i])
    /\ output[p].message = <<"Retrieved ", "1", " state values">>

\* a get-all on a non-empty list without a state label
C13_WitnessEmpty ==
  \E p \in Procs :
    /\ Finished(p, "get-all")
    /\ currentLabels[p] # <<>>
    /\ FetchedKeys(p) = {}
    /\ output[p].state = EmptyState

\* ---------------------------------------------------------------- claim C14
\* the setLabels call of the invocation returned
Committed(p) ==
  /\ Len(SetLabelsCalls(p)) = 1
  /\ SetLabelsCalls(p)[1].ok

\* C14: a finished Set or Remove whose setLabels call returned outputs
\* success = true and its normal message, and raises no failure, whether
\* its deleteLabel call returned, threw or was never made.
C14_DeleteFailureIgnored ==
  \A p \in Procs :
    (pc[p] = "done" /\ input[p].operation \in {"set", "remove"} /\ Committed(p)) =>
      /\ output[p].success = TRUE
      /\ failed[p] = NoError
      /\ output[p].message =
           IF input[p].operation = "set"
           THEN <<"Set state: ">> \o input[p].key \o <<"=">> \o input[p].value
           ELSE <<"Removed state key: ">> \o input[p].key

\* a Set whose deleteLabel call threw
C14_Witness ==
  \E p \in Procs :
    /\ pc[p] = "done"
    /\ input[p].operation = "set"
    /\ Committed(p)
    /\ Len(DeleteCalls(p)) = 1
    /\ ~DeleteCalls(p)[1].ok
    /\ output[p].success = TRUE

\* a Remove whose deleteLabel call threw
C14_WitnessRemove ==
  \E p \in Procs :
    /\ pc[p] = "done"
    /\ input[p].operation = "remove"
    /\ Committed(p)
    /\ Len(DeleteCalls(p)) = 1
    /\ ~DeleteCalls(p)[1].ok
    /\ output[p].success = TRUE

\* ---------------------------------------------------------------- claim C15
\* the positions of the invocation's call log where listLabelsOnIssue or
\* setLabels threw
FailedCalls(p) ==
  {i \in 1..Len(calls[p]) :
     /\ calls[p][i].call \in {"listLabelsOnIssue", "setLabels"}
     /\ ~calls[p][i].ok}

C15_WitnessList ==
  \E p \in Procs :
    /\ FailedCalls(p) = {1}
    /\ input[p].operation = "remove"
    /\ failed[p] = <<"Network error">>

\* ---------------------------------------------------------------- claim C16
\* owner/repo: two non-empty pieces around one slash
WellFormedRepository(repository) ==
  \E i \in 2..(Len(repository) - 1) :
    /\ repository[i] = "/"
    /\ \A j \in 1..Len(repository) : repository[j] = "/" => j = i

\* a base-10 integer: digits, and nothing else
IsIntegerText(s) == s # <<>> /\ \A i \in 1..Len(s) : IsDigit(s[i])

\* the messages of the validation errors the inputs of an invocation have
ValidationFaults(in) ==
  (IF WellFormedRepository(in.repository) THEN {}
   ELSE {<<"Invalid repository format. Expected: owner/repo">>})
  \cup (IF in.operation \in {"set", "remove", "get", "get-all"} THEN {}
        ELSE {<<"Invalid operation: ", in.operation,
                ". Must be: set, remove, get, get-all">>})
  \cup (IF in.operation \in {"set", "remove", "get"} /\ in.key = <<>>
        THEN {<<"Key is required for operation: ", in.operation>>} ELSE {})
  \cup (IF in.operation = "set" /\ in.value = <<>>
        THEN {<<"Value is required for operation: ", in.operation>>} ELSE {})
  \cup (IF IsIntegerText(in.issueNumber) THEN {} ELSE {<<"Invalid issue number">>})
  \cup (IF in.githubToken = <<>> THEN {<<"GitHub token is required">>} ELSE {})

\* C16: an invocation whose inputs have a validation error (malformed
\* owner/repo, unknown operation, empty key for set/get/remove, empty value
\* for set, non-integer issue number, empty token) makes no remote call,
\* raises the failure with the message of one of its errors, and outputs
\* success = false.
C16_ValidationBeforeCalls ==
  \A p \in Procs :
    (pc[p] # "idle" /\ ValidationFaults(input[p]) # {}) =>
      /\ calls[p] = <<>>
      /\ pc[p] = "done"
      /\ failed[p] \in ValidationFaults(input[p])
      /\ output[p].success = FALSE
      /\ output[p].message = failed[p]

\* ---------------------------------------------------------------- claim C17
\* C17: a finished get or remove whose key no label of the fetched list
\* decodes to outputs success = false and the message "Key '<key>' not
\* found", and raises no failure.
C17_SoftMiss ==
  \A p \in Procs :
    \A operation \in {"get", "remove"} :
      (Finished(p, operation) /\ KeyPositions(p) = {}) =>
        /\ output[p].success = FALSE
        /\ output[p].message = <<"Key '">> \o input[p].key \o <<"' not found">>
        /\ failed[p] = NoError

\* a remove and a get can both miss: here a remove on a list that carries
\* state labels of another key
C17_Witness ==
  \E p \in Procs :
    /\ Finished(p, "remove")
    /\ KeyPositions(p) = {}
    /\ FetchedKeys(p) # {}
    /\ output[p].success = FALSE
    /\ failed[p] = NoError

\* a get on a non-empty list without a label of its key
C17_WitnessGet ==
  \E p \in Procs :
    /\ Finished(p, "get")
    /\ KeyPositions(p) = {}
    /\ currentLabels[p] # <<>>
    /\ output[p].success = FALSE
    /\ failed[p] = NoError

\* ---------------------------------------------------------------- claim C18
\* the four outcomes of a finished invocation, read off what it called,
\* raised and output
IsValidationError(p) == calls[p] = <<>> /\ failed[p] # NoError

IsOperationalError(p) == FailedCalls(p) # {} /\ failed[p] # NoError

IsSoftMiss(p) ==
  /\ Listed(p) /\ FailedCalls(p) = {}
  /\ failed[p] = NoError
  /\ output[p].success = FALSE

IsSuccess(p) ==
  /\ Listed(p) /\ FailedCalls(p) = {}
  /\ failed[p] = NoError
  /\ output[p].success = TRUE

Outcomes(p) ==
  (IF IsValidationError(p) THEN {"validation error"} ELSE {})
  \cup (IF IsOperationalError(p) THEN {"operational error"} ELSE {})
  \cup (IF IsSoftMiss(p) THEN {"soft miss"} ELSE {})
  \cup (IF IsSuccess(p) THEN {"success"} ELSE {})

\* C18: a finished invocation has set the success and the message output
\* and has exactly one of the outcomes validation error, soft miss,
\* operational error and success; a validation error is a rejected input, a
\* soft miss a get or remove of a key no fetched label decodes to;
\* success = true is output on the success outcome only, and the failure is
\* raised on validation and operational errors only.
C18_OneOutcome ==
  \A p \in Procs :
    pc[p] = "done" =>
      /\ {"success", "message"} \subseteq DOMAIN output[p]
      /\ output[p].success \in BOOLEAN
      /\ Cardinality(Outcomes(p)) = 1
      /\ IsValidationError(p) <=> validate(input[p]) # NoError
      /\ IsSoftMiss(p) =>
           input[p].operation \in {"get", "remove"} /\ KeyPositions(p) = {}
      /\ output[p].success = TRUE <=> Outcomes(p) = {"success"}
      /\ failed[p] # NoError <=>
           Outcomes(p) \subseteq {"validation error", "operational error"}

\* a remove whose setLabels call threw ends in the operational error
C18_Witness ==
  \E p \in Procs :
    /\ pc[p] = "done"
    /\ input[p].operation = "remove"
    /\ Outcomes(p) = {"operational error"}
    /\ Len(calls[p]) = 2

\* ---------------------------------------------------------------- claim C19
\* the value a label list gives a key, or null
StateOf(labels, key) ==
  LET state == extractStateLabels(labels, prefix, separator)
  IN IF key \in DOMAIN state THEN state[key] ELSE JsNull

\* both invocations were a Set or a Remove of one key and are over, and a
\* setLabels call of theirs returned
BothWrote(key) ==
  /\ \A p \in Procs :
       /\ pc[p] = "done"
       /\ Listed(p)
       /\ input[p].operation \in {"set", "remove"}
       /\ input[p].key = key
  /\ lastWrite.written

\* the Set deleted the definition of the very label it had written (C3)
DeletedOwnLabel(p) ==
  /\ input[p].operation = "set"
  /\ \E i \in 1..Len(DeleteCalls(p)) :
       DeleteCalls(p)[i].ok /\ DeleteCalls(p)[i].name = NewLabelOf(p)

\* C19: when two invocations, each a Set or a Remove of the same key of the
\* issue, have run with their remote calls interleaved in any order and
\* both are over, the value the issue's labels give the key is the value
\* given by the label list of the setLabels call that returned last.
\* Stated for the keys whose label decodes back to the key (C1) and for
\* runs in which no Set deleted the label it had itself written (C3), which
\* leaves out what those claims already settle.
C19_LastWriterWins ==
  \A key \in Keys :
    (/\ BothWrote(key)
     /\ \A v \in Values : RoundTrips(key, v)
     /\ \A p \in Procs : ~DeletedOwnLabel(p))
      => StateOf(issueLabels, key) = StateOf(lastWrite.labels, key)

\* ---------------------------------------------------------------- claim C20
\* the positions of a label list whose label decodes to the key
PositionsOf(labels, key) ==
  {i \in 1..Len(labels) :
     LET parsed == parseStateLabel(labels[i], prefix, separator)
     IN parsed.ok /\ parsed.key = key}

\* C20: on an issue that starts with at most one label per key, when a Set
\* or a Remove has ended with success = true the issue has at most one
\* label decoding to each key, and when it was a Set(k, v) exactly one
\* label decoding to k.  Stated for the keys whose label decodes back to
\* the key, which leaves out what C1 already settles.
C20_OneLabelPerKey ==
  (/\ lastOk.operation \in {"set", "remove"}
   /\ \A v \in Values : RoundTrips(lastOk.key, v))
    => /\ OneLabelPerKey(lastOk.labelsAfter, prefix, separator)
       /\ lastOk.operation = "set" =>
            Cardinality(PositionsOf(lastOk.labelsAfter, lastOk.key)) = 1

\* ---------------------------------------------------------------- claim C21
\* the text of a base-10 integer in canonical form: 0, or an optional minus
\* sign and digits that start with a digit other than 0
IsCanonicalInteger(raw) ==
  LET body == IF raw # <<>> /\ Head(raw) = "-" THEN Tail(raw) ELSE raw
  IN /\ body # <<>>
     /\ \A i \in 1..Len(body) : IsDigit(body[i])
     /\ raw = <<"0">> \/ body[1] # "0"

\* the canonical text of the integer a canonical text denotes, digit by digit
RECURSIVE CanonicalDigits(_)
CanonicalDigits(n) ==
  IF n < 10 THEN <<Digits[n + 1]>>
  ELSE CanonicalDigits(n \div 10) \o <<Digits[(n % 10) + 1]>>

RECURSIVE DigitsValue(_)
DigitsValue(ds) ==
  IF ds = <<>> THEN 0
  ELSE 10 * DigitsValue(SubSeq(ds, 1, Len(ds) - 1)) + DigitValue(ds[Len(ds)])

Canonical(raw) ==
  IF Head(raw) = "-" THEN <<"-">> \o CanonicalDigits(DigitsValue(Tail(raw)))
  ELSE CanonicalDigits(DigitsValue(raw))

\* C21: convertValue returns the canonical decimal text of raw when raw is
\* the canonical text of a base-10 integer, and raw unchanged otherwise; the
\* values 42, 007, abc and -5 come back as they are.
C21_NormalizeValue ==
  codec.pc = "converted" =>
    /\ codec.converted =
         IF IsCanonicalInteger(codec.value) THEN Canonical(codec.value)
         ELSE codec.value
    /\ codec.value \in {<<"4", "2">>, <<"0", "0", "7">>, <<"a", "b", "c">>, <<"-", "5">>}
         => codec.converted = codec.value

\* a value with a leading zero has been converted
C21_Witness ==
  /\ codec.pc = "converted"
  /\ codec.value = <<"0", "0", "7">>
  /\ codec.converted = <<"0", "0", "7">>

\* a canonical integer has been converted
C21_WitnessCanonical ==
  /\ codec.pc = "converted"
  /\ codec.value = <<"-", "5">>
  /\ IsCanonicalInteger(codec.value)

\* ---------------------------------------------------------------- claim C22
\* what follows prefix + separator in the decoded label
CodecRemainder ==
  SubSeq(codec.label, Len(codec.prefix) + Len(codec.separator) + 1, Len(codec.label))

\* the separator stands in s right after the first n characters
SeparatorAt(s, n) ==
  /\ n + Len(codec.separator) <= Len(s)
  /\ SubSeq(s, n + 1, n + Len(codec.separator)) = codec.separator

\* C22: a decoded label that starts with prefix + separator and whose
\* remainder holds the separator gives as key the part of the remainder
\* before the separator's first occurrence and as value all that follows
\* that occurrence, further separators included.
C22_SplitAtFirstSeparator ==
  (/\ codec.pc = "decoded"
   /\ SubSeq(codec.label, 1, Len(codec.prefix) + Len(codec.separator))
        = codec.prefix \o codec.separator
   /\ \E n \in 0..Len(CodecRemainder) : SeparatorAt(CodecRemainder, n))
    => /\ codec.parsed.ok
       /\ CodecRemainder = codec.parsed.key \o codec.separator \o codec.parsed.value
       /\ \A n \in 0..Len(CodecRemainder) :
            SeparatorAt(CodecRemainder, n) => n >= Len(codec.parsed.key)

\* a label whose value holds the separator has been decoded: the value
\* comes back whole
C22_Witness ==
  /\ codec.pc = "decoded"
  /\ codec.parsed.ok
  /\ codec.parsed.key = <<"a">>
  /\ Len(codec.parsed.value) > Len(codec.separator)
  /\ \E n \in 1..Len(codec.parsed.value) : SeparatorAt(codec.parsed.value, n)
  /\ codec.parsed.value = codec.value

\* ---------------------------------------------------------------- claim C23
\* the label starts with prefix + separator and no separator follows
IsMalformed(name) ==
  /\ StartsWith(name, prefix \o separator)
  /\ ~Contains(SubstringFrom(name, Len(prefix) + Len(separator)), separator)

MalformedPositions(p) ==
  {i \in 1..Len(currentLabels[p]) : IsMalformed(currentLabels[p][i])}

\* the fetched list without its malformed labels
WellFormedOf(p) == SelectSeq(currentLabels[p], LAMBDA l : ~IsMalformed(l))

\* C23: the malformed labels of the fetched list add no entry to the state
\* (get and get-all answer as on the list without them), make no operation
\* fail (an invocation whose remote calls all returned raises no failure),
\* and are all kept, in order, in the setLabels list of Set and Remove and
\* never named by a deleteLabel call.
C23_MalformedIgnored ==
  \A p \in Procs :
    /\ Finished(p, "get-all") =>
         output[p].state = extractStateLabels(WellFormedOf(p), prefix, separator)
    /\ Finished(p, "get") =>
         output[p].value
           = getOperation(input[p].key, WellFormedOf(p), prefix, separator).value
    /\ (pc[p] = "done" /\ Listed(p) /\ FailedCalls(p) = {}) => failed[p] = NoError
    /\ (CalledReplace(p, "set") \/ CalledReplace(p, "remove")) =>
         SelectSeq(Replaced(p), IsMalformed) = SelectSeq(currentLabels[p], IsMalformed)
    /\ \A i \in 1..Len(DeleteCalls(p)) : ~IsMalformed(DeleteCalls(p)[i].name)

\* a Set of key a on a list that carries the malformed label naming a
C23_Witness ==
  \E p \in Procs :
    /\ Finished(p, "set")
    /\ input[p].key = <<"a">>
    /\ prefix \o separator \o <<"a">> \in Range(currentLabels[p])
    /\ prefix \o separator \o <<"a">> \in Range(Replaced(p))
    /\ KeyPositions(p) # {}

\* a get-all on a list of malformed labels only
C23_WitnessGetAll ==
  \E p \in Procs :
    /\ Finished(p, "get-all")
    /\ Cardinality(MalformedPositions(p)) = 2
    /\ Len(currentLabels[p]) = 2
    /\ output[p].state = EmptyState

\* ---------------------------------------------------------------- claim C24
\* the last position of the fetched list whose label decodes to the key
LastPositionOf(p, key) ==
  CHOOSE i \in PositionsOf(currentLabels[p], key) :
    \A j \in PositionsOf(currentLabels[p], key) : j <= i

\* C24: the state a get-all outputs has as its keys exactly the keys some
\* fetched label decodes to, and maps each key to the decoded value of the
\* last fetched label, in list order, that decodes to it.
C24_LastOccurrenceWins ==
  \A p \in Procs :
    Finished(p, "get-all") =>
      /\ DOMAIN output[p].state = FetchedKeys(p)
      /\ \A key \in FetchedKeys(p) :
           output[p].state[key] =
             parseStateLabel(currentLabels[p][LastPositionOf(p, key)],
                             prefix, separator).value

\* a get-all on a list with two labels of one key and different values
C24_Witness ==
  \E p \in Procs :
    /\ Finished(p, "get-all")
    /\ \E key \in FetchedKeys(p) :
         \E i, j \in PositionsOf(currentLabels[p], key) :
           /\ i < j
           /\ j = LastPositionOf(p, key)
           /\ parseStateLabel(currentLabels[p][i], prefix, separator).value
                # output[p].state[key]

\* ---------------------------------------------------------------- claim C25
\* C25: the remote calls of an invocation are, in order, the list call, at
\* most one setLabels call and at most one deleteLabel call; a deleteLabel
\* call comes right after the setLabels call of the same invocation, and
\* only when that call returned.
C25_CallOrder ==
  \A p \in Procs :
    /\ Len(calls[p]) <= 3
    /\ \A i \in 1..Len(calls[p]) :
         /\ calls[p][i].call = "listLabelsOnIssue" <=> i = 1
         /\ calls[p][i].call = "setLabels" =>
              i = 2 /\ calls[p][1].ok /\ input[p].operation \in {"set", "remove"}
         /\ calls[p][i].call = "deleteLabel" =>
              i = 3 /\ calls[p][2].call = "setLabels" /\ calls[p][2].ok
    /\ pc[p] = "cleanup" => Committed(p) /\ DeleteCalls(p) = <<>>

\* a Remove has issued its three calls, the last of which threw
C25_Witness ==
  \E p \in Procs :
    /\ pc[p] = "done"
    /\ input[p].operation = "remove"
    /\ Len(calls[p]) = 3
    /\ calls[p][3].call = "deleteLabel"
    /\ ~calls[p][3].ok
    /\ Len(currentLabels[p]) = 3

\* ---------------------------------------------------------------- claim C26
\* C26: convertValue returns every raw value as it is, so the label Set
\* creates is prefix, separator, key, separator and the raw value, and the
\* message of Set names the raw value.
C26_NormalizeIsIdentity ==
  /\ codec.pc \in {"converted", "named"} => codec.converted = codec.value
  /\ codec.pc = "named" =>
       /\ codec.label = prefix \o separator \o codec.key \o separator \o codec.value
       /\ codec.message = <<"Set state: ">> \o codec.key \o <<"=">> \o codec.value

\* Set has named its label for a value with a leading blank before digits
C26_Witness ==
  /\ codec.pc = "named"
  /\ codec.value = <<" ", "4", "2">>
  /\ codec.label = prefix \o separator \o codec.key \o separator \o <<" ", "4", "2">>

\* ---------------------------------------------------------------- claim C27
\* the keys a Set or Remove of p could touch: those of the fetched list,
\* those of the list handed to setLabels, and those a caller may pass
KeysAround(p) ==
  FetchedKeys(p) \cup DOMAIN extractStateLabels(Replaced(p), prefix, separator)
    \cup Keys

\* every key but the requested one has in the setLabels list the value it
\* had in the fetched list, or is absent from both
OtherKeysUnchanged(p) ==
  \A key \in KeysAround(p) \ {input[p].key} :
    StateOf(Replaced(p), key) = StateOf(currentLabels[p], key)

\* C27 as stated: Set and Remove on a key leave every other key unchanged
\* in the list handed to setLabels, for every key and value a caller may pass.
C27_OtherKeysAsStated ==
  \A p \in Procs :
    (CalledReplace(p, "set") \/ CalledReplace(p, "remove")) => OtherKeysUnchanged(p)

\* C27 amended: Remove on any key, and Set on a key such that the separator
\* does not occur in the key followed by the separator minus its last
\* character, leave every other key unchanged in the list handed to
\* setLabels.
C27_OtherKeys ==
  \A p \in Procs :
    /\ CalledReplace(p, "remove") => OtherKeysUnchanged(p)
    /\ (/\ CalledReplace(p, "set")
        /\ ~Contains(input[p].key \o SeparatorHead(separator), separator))
         => OtherKeysUnchanged(p)

\* a Set of a key on a list that carries that key and another one
C27_Witness ==
  \E p \in Procs :
    /\ Finished(p, "set")
    /\ CalledReplace(p, "set")
    /\ ~Contains(input[p].key \o SeparatorHead(separator), separator)
    /\ KeyPositions(p) # {}
    /\ \E key \in FetchedKeys(p) :
         key # input[p].key /\ StateOf(Replaced(p), key) = <<"1">>

\* a Remove of a key on such a list
C27_WitnessRemove ==
  \E p \in Procs :
    /\ Finished(p, "remove")
    /\ CalledReplace(p, "remove")
    /\ \E key \in FetchedKeys(p) :
         key # input[p].key /\ StateOf(Replaced(p), key) = <<"1">>

\* ---------------------------------------------------------------- claim C28
\* several fetched labels decode to the requested key
HasDuplicates(p) == Cardinality(KeyPositions(p)) >= 2

FirstKeyPosition(p) == CHOOSE i \in KeyPositions(p) : \A j \in KeyPositions(p) : i <= j

LastKeyPosition(p) == CHOOSE i \in KeyPositions(p) : \A j \in KeyPositions(p) : j <= i

\* the fetched labels a Set or Remove hands on to setLabels: the list of the
\* call, for a Set without the new label appended to it
KeptByReplace(p) ==
  IF input[p].operation = "set" THEN Front(Replaced(p)) ELSE Replaced(p)

C28_WitnessGet ==
  \E p \in Procs :
    /\ Finished(p, "get")
    /\ HasDuplicates(p)
    /\ output[p].success = TRUE

\* ---------------------------------------------------------------- claim C29
\* what Get answers on the list a Remove fetched, for the key of the Remove
GetOnFetched(p) == getOperation(input[p].key, currentLabels[p], prefix, separator)

\* C29: on one label list, key, prefix and separator, Remove returns the
\* soft miss "Key '<key>' not found" exactly when Get returns
\* success = false, and goes on to setLabels exactly when Get returns
\* success = true.
C29_GetRemoveAgree ==
  \A p \in Procs :
    (Listed(p) /\ pc[p] \in {"cleanup", "done"} /\ input[p].operation = "remove") =>
      /\ (/\ SetLabelsCalls(p) = <<>>
          /\ output[p].success = FALSE
          /\ output[p].message = <<"Key '">> \o input[p].key \o <<"' not found">>)
           <=> GetOnFetched(p).success = FALSE
      /\ SetLabelsCalls(p) # <<>> <=> GetOnFetched(p).success = TRUE

====
